---- MODULE Spec2Model ----
(***************************************************************************)
(* Model of VisualizationLayout (src/layout.py): the categorizer, the      *)
(* proportion calculator, the display selector, the search injector, the   *)
(* plot-data builder, the branch resolver and the range auto-expander,     *)
(* together with the two event handlers registered by render().            *)
(*                                                                         *)
(* Conventions.  Python lists and DataFrames are sequences; Python index i *)
(* is index i+1 here.  A DataFrame row is a record with the columns        *)
(* region, postcode, primary, secondary, time_safe.  Ratios and vertical   *)
(* coordinates are Python floats, computed operation by operation as the   *)
(* interpreter computes them; horizontal coordinates, on which no decision *)
(* depends, are stored in units of 1/1000.                                 *)
(***************************************************************************)
EXTENDS Integers, Sequences, FiniteSets, TLC

VARIABLES
    pc,                             \* "new", "constructed", "rendered", "error"
    input_table,                    \* self.input_table
    num_categories,                 \* self.num_categories = len(labels)
    lower_bounds,                   \* self.lower_bounds
    calc_with_secondary_incidence,  \* self.calc_with_secondary_incidence
    total_display_regions,          \* self.total_display_regions
    min_display_regions,            \* self.min_display_regions
    min_space_y,                    \* self.min_space_y (a float)
    y_range,                        \* self.y_range, <<lower, upper>>
    ratios,                         \* self.ratios (floats)
    categorized_entries,            \* self.categorized_entries
    display_regions,                \* self.display_regions
    last_searched,                  \* self.last_searched
    source,                         \* self.source.data
    searched_source,                \* self.searched_source.data
    searchbar_value,                \* searchbar.value
    box_data,                       \* box_data of __draw_phase_boxes__
    last_event,                     \* history: the handler that ran last
    initial_display,                \* history: display_regions after __init__
    ever_injected,                  \* history: some search has inserted rows
    branch_pc,                      \* branch resolver harness: "input", "done"
    branch_direction,               \* branch resolver harness: direction
    branch_in,                      \* branch resolver harness: data before
    branch_out,                     \* branch resolver harness: data after
    range_pc,                       \* range expander harness: "input", "once", "twice"
    range_y,                        \* range expander harness: the candidate y
    range_in,                       \* range expander harness: viewport before
    range_once                      \* range expander harness: viewport after one call

vars == <<pc, input_table, num_categories, lower_bounds,
          calc_with_secondary_incidence, total_display_regions,
          min_display_regions, min_space_y, y_range, ratios,
          categorized_entries, display_regions, last_searched, source,
          searched_source, searchbar_value, box_data, last_event,
          initial_display, ever_injected, branch_pc, branch_direction, branch_in, branch_out,
          range_pc, range_y, range_in, range_once>>

layout_vars == <<pc, input_table, num_categories, lower_bounds,
                 calc_with_secondary_incidence, total_display_regions,
                 min_display_regions, min_space_y, y_range, ratios,
                 categorized_entries, display_regions, last_searched, source,
                 searched_source, searchbar_value, box_data, last_event,
                 initial_display, ever_injected>>

branch_vars == <<branch_pc, branch_direction, branch_in, branch_out>>

range_vars == <<range_pc, range_y, range_in, range_once>>

----------------------------------------------------------------------------
(* Bounds of the model.                                                    *)

\* rows of the input table in the interactive specification
MaxRows == 3
\* largest incidence value of a row
MaxInc == 2
\* largest time-safe count of a row
MaxSafe == 1
\* rows of the input table in the categorizer specification
MaxCatRows == 2
\* categories in the categorizer specification
MaxCats == 3
\* largest configured total_display_regions / min_display_regions
MaxTotalDisplay == 2
MaxMinDisplay == 1
\* entries handed to the branch resolver harness
MaxBranchEntries == 4
\* candidate y values of the range expander harness reach down to
\* -MaxRangeDepth tenths of the box height
MaxRangeDepth == 8

----------------------------------------------------------------------------
(* Arithmetic helpers.                                                     *)

Max2(a, b) == IF a >= b THEN a ELSE b
Min2(a, b) == IF a <= b THEN a ELSE b

Range(s) == {s[i] : i \in 1..Len(s)}

Reverse(s) == [i \in 1..Len(s) |-> s[Len(s) + 1 - i]]

SeqsUpTo(S, n) == UNION {[1..k -> S] : k \in 0..n}

RECURSIVE SumSeq(_)
SumSeq(s) == IF s = <<>> THEN 0 ELSE Head(s) + SumSeq(Tail(s))

RECURSIVE Flatten(_)
Flatten(ss) == IF ss = <<>> THEN <<>> ELSE Head(ss) \o Flatten(Tail(ss))

----------------------------------------------------------------------------
(* Python floats (IEEE-754 binary64, round to nearest, ties to even).      *)
(* A float is [s, e, h, l]: the value s * (h * 2^28 + l) * 2^e, where s is *)
(* the sign (0 for zero) and h * 2^28 + l is the 53-bit mantissa followed  *)
(* by three zero bits: 2^27 <= h < 2^28, 0 <= l < 2^28, l a multiple of 8. *)
(* A pair (xh, xl) stands for the natural number xh * 2^28 + xl.  No value *)
(* of the layout leaves the exponent range of a double, so e is not        *)
(* bounded.                                                                *)

LimbBase == 16384
PairBase == 268435456
HalfPairBase == 134217728

FloatZero == [s |-> 0, e |-> 0, h |-> 0, l |-> 0]

\* float('inf'): larger than every finite float, unchanged by + and -
FloatInf == [s |-> 1, e |-> 4096, h |-> HalfPairBase, l |-> 0]

\* int.bit_length for 0 < x < 2^28
bits7(x) ==
    IF x < 8 THEN (IF x < 2 THEN x ELSE IF x < 4 THEN 2 ELSE 3)
    ELSE IF x < 16 THEN 4
    ELSE IF x < 32 THEN 5
    ELSE IF x < 64 THEN 6
    ELSE 7
bits14(x) == IF x < 128 THEN bits7(x) ELSE 7 + bits7(x \div 128)
bit_length(x) == IF x < LimbBase THEN bits14(x) ELSE 14 + bits14(x \div LimbBase)

\* x with its lowest bit set when lower bits were lost
sticky(x, lost) == IF lost /\ x % 2 = 0 THEN x + 1 ELSE x

\* the mantissa (xh, xl) after + 1 in its last place: 2^53 becomes 2^52
\* with the exponent raised
mantissa_up(s, e, xh, xl) ==
    IF xl < PairBase THEN [s |-> s, e |-> e, h |-> xh, l |-> xl]
    ELSE IF xh + 1 < PairBase THEN [s |-> s, e |-> e, h |-> xh + 1, l |-> 0]
    ELSE [s |-> s, e |-> e + 1, h |-> HalfPairBase, l |-> 0]

\* round half to even: the three lowest bits of xl lie below the mantissa
round_half_even(s, e, xh, xl) ==
    IF xl % 8 > 4 \/ (xl % 8 = 4 /\ (xl \div 8) % 2 = 1)
    THEN mantissa_up(s, e, xh, xl - (xl % 8) + 8)
    ELSE [s |-> s, e |-> e, h |-> xh, l |-> xl - (xl % 8)]

\* the shift that brings the first set bit of the pair (xh, xl), below
\* 2^57 and not 0, to bit 56: -1 is one place to the right
leading_shift(xh, xl) ==
    IF xh >= PairBase THEN -1
    ELSE IF xh # 0 THEN 28 - bit_length(xh)
    ELSE 56 - bit_length(xl)

\* the two halves of (xh, xl) * 2^d; the bit lost by d = -1 is kept as a
\* sticky bit
shifted_high(xh, xl, d) ==
    IF d < 0 THEN xh \div 2
    ELSE IF d < 28 THEN xh * (2 ^ d) + (xl \div (2 ^ (28 - d)))
    ELSE xl * (2 ^ (d - 28))

shifted_low(xh, xl, d) ==
    IF d < 0 THEN sticky((xl \div 2) + (xh % 2) * HalfPairBase, xl % 2 = 1)
    ELSE IF d < 28 THEN (xl % (2 ^ (28 - d))) * (2 ^ d)
    ELSE 0

round_shifted(s, e, xh, xl, d) ==
    round_half_even(s, e - d, shifted_high(xh, xl, d), shifted_low(xh, xl, d))

\* The float nearest to s * x * 2^e for x = (xh, xl) below 2^57.  An odd x
\* of at least 55 bits may stand for x plus a fraction below 1.
round_pair(s, e, xh, xl) ==
    IF xh = 0 /\ xl = 0 THEN FloatZero
    ELSE round_shifted(s, e, xh, xl, leading_shift(xh, xl))

float_neg(a) == [s |-> -a.s, e |-> a.e, h |-> a.h, l |-> a.l]

\* 1, 0 or -1 as |a| > |b|, |a| = |b| or |a| < |b|, for a and b not zero
magnitude_cmp(a, b) ==
    IF a.e # b.e THEN (IF a.e > b.e THEN 1 ELSE -1)
    ELSE IF a.h # b.h THEN (IF a.h > b.h THEN 1 ELSE -1)
    ELSE IF a.l # b.l THEN (IF a.l > b.l THEN 1 ELSE -1)
    ELSE 0

\* s * ((ah, al) + (bh, bl)) * 2^e, or the difference when same is false
\* ((ah, al) >= (bh, bl))
add_pairs(s, e, ah, al, bh, bl, same) ==
    round_pair(s, e,
               IF same THEN ah + bh + (IF al + bl < PairBase THEN 0 ELSE 1)
               ELSE ah - bh - (IF al >= bl THEN 0 ELSE 1),
               IF same THEN (al + bl) % PairBase ELSE (al - bl) % PairBase)

\* the two halves of the mantissa of b divided by 2^d (d < 56), the lost
\* bits kept as a sticky bit
aligned_high(b, d) == IF d < 28 THEN b.h \div (2 ^ d) ELSE 0

aligned_low(b, d) ==
    IF d < 28
    THEN sticky((b.l \div (2 ^ d)) + (b.h % (2 ^ d)) * (2 ^ (28 - d)),
                b.l % (2 ^ d) # 0)
    ELSE sticky(b.h \div (2 ^ (d - 28)), b.l # 0 \/ b.h % (2 ^ (d - 28)) # 0)

\* a + b for |a| >= |b| > 0 and exponents d apart; b below a quarter of the
\* last place of a does not change a
add_ordered(a, b, d) ==
    IF d >= 56 THEN a
    ELSE add_pairs(a.s, a.e, a.h, a.l, aligned_high(b, d), aligned_low(b, d),
                   a.s = b.s)

\* a + b for a and b not zero, the larger magnitude taken first
add_nonzero(a, b, a_first) ==
    add_ordered(IF a_first THEN a ELSE b, IF a_first THEN b ELSE a,
                IF a_first THEN a.e - b.e ELSE b.e - a.e)

float_add(a, b) ==
    IF a.s = 0 THEN b
    ELSE IF b.s = 0 THEN a
    ELSE add_nonzero(a, b, magnitude_cmp(a, b) >= 0)

float_sub(a, b) == float_add(a, float_neg(b))

\* the limbs of column sums cols, from column i on, with carry c coming in
RECURSIVE carry_limbs(_, _, _)
carry_limbs(cols, i, c) ==
    IF i > Len(cols) THEN <<c>>
    ELSE <<(cols[i] + c) % LimbBase>>
             \o carry_limbs(cols, i + 1, (cols[i] + c) \div LimbBase)

\* the base-2^14 limbs of the pair of a, least significant first
mantissa_limbs(a) ==
    <<a.l % LimbBase, a.l \div LimbBase, a.h % LimbBase, a.h \div LimbBase>>

\* the product of two pairs, as eight limbs
mantissa_product(x, y) ==
    carry_limbs(<<x[1] * y[1],
                  x[1] * y[2] + x[2] * y[1],
                  x[1] * y[3] + x[2] * y[2] + x[3] * y[1],
                  x[1] * y[4] + x[2] * y[3] + x[3] * y[2] + x[4] * y[1],
                  x[2] * y[4] + x[3] * y[3] + x[4] * y[2],
                  x[3] * y[4] + x[4] * y[3],
                  x[4] * y[4]>>, 1, 0)

\* s * p * 2^e for a product p of two pairs: floor(p / 2^56) with the lost
\* bits kept as a sticky bit
round_product(s, e, p) ==
    round_pair(s, e + 56, p[7] + p[8] * LimbBase,
               sticky(p[5] + p[6] * LimbBase,
                      p[1] # 0 \/ p[2] # 0 \/ p[3] # 0 \/ p[4] # 0))

\* a * b; a power of two only moves the exponent
float_mul(a, b) ==
    IF a.s = 0 \/ b.s = 0 THEN FloatZero
    ELSE IF b.h = HalfPairBase /\ b.l = 0
    THEN [s |-> a.s * b.s, e |-> a.e + b.e + 55, h |-> a.h, l |-> a.l]
    ELSE round_product(a.s * b.s, a.e + b.e,
                       mantissa_product(mantissa_limbs(a), mantissa_limbs(b)))

\* float(k) for an int k
float_of_int(k) ==
    round_pair(IF k < 0 THEN -1 ELSE 1, 0,
               (IF k < 0 THEN -k ELSE k) \div PairBase,
               (IF k < 0 THEN -k ELSE k) % PairBase)

\* count further base-2^14 digits of r / n, most significant first, followed
\* by the remainder (0 <= r < n < 2^17)
RECURSIVE long_division(_, _, _)
long_division(r, n, count) ==
    IF count = 0 THEN <<r>>
    ELSE <<(r * LimbBase) \div n>> \o long_division((r * LimbBase) % n, n, count - 1)

\* the index of the first limb of w from i on that is not 0
RECURSIVE first_limb(_, _)
first_limb(w, i) == IF w[i] # 0 THEN i ELSE first_limb(w, i + 1)

\* The float nearest to the quotient whose base-2^14 limbs are w, most
\* significant first, limb 3 the units, with w[10] the remainder of the
\* division: the 56 bits from the first set bit (in limb t, of b bits) on,
\* everything after them kept as a sticky bit
round_quotient(w, t, b) ==
    round_pair(1, b - 14 * (t + 1),
               (w[t] * LimbBase + w[t + 1]) * (2 ^ (14 - b))
                   + ((w[t + 2] * LimbBase + w[t + 3]) \div (2 ^ (14 + b))),
               sticky(((w[t + 2] * LimbBase + w[t + 3]) % (2 ^ (14 + b))) * (2 ^ (14 - b))
                          + (w[t + 4] \div (2 ^ b)),
                      \/ w[t + 4] % (2 ^ b) # 0
                      \/ \E i \in (t + 5)..10 : w[i] # 0))

quotient_from(w, t) == round_quotient(w, t, bit_length(w[t]))

\* the integer q as three limbs, most significant first
int_limbs(q) == <<q \div PairBase, (q \div LimbBase) % LimbBase, q % LimbBase>>

\* k / n for ints 0 < k < 2^31 and 0 < n < 2^17
quotient(k, n) ==
    quotient_from(int_limbs(k \div n) \o long_division(k % n, n, 6),
                  first_limb(int_limbs(k \div n) \o long_division(k % n, n, 2), 1))

\* k / n for ints k and n, 0 < n < 2^17: the correctly rounded quotient
true_div(k, n) ==
    IF k = 0 THEN FloatZero
    ELSE [quotient(IF k < 0 THEN -k ELSE k, n) EXCEPT !.s = IF k < 0 THEN -1 ELSE 1]

\* a / 2
float_half(a) == IF a.s = 0 THEN a ELSE [a EXCEPT !.e = @ - 1]

\* floor(|a|) for a float 0 < |a| < 2^31, whose exponent is -d
magnitude_floor(a, d) ==
    IF d >= 56 THEN 0
    ELSE IF d >= 28 THEN a.h \div (2 ^ (d - 28))
    ELSE a.h * (2 ^ (28 - d)) + (a.l \div (2 ^ d))

\* |a| is not an integer
has_fraction(a, d) ==
    IF d >= 56 THEN TRUE
    ELSE IF d >= 28 THEN a.l # 0 \/ a.h % (2 ^ (d - 28)) # 0
    ELSE a.l % (2 ^ d) # 0

\* math.floor(a) for |a| < 2^31
math_floor(a) ==
    IF a.s = 0 THEN 0
    ELSE IF a.s > 0 THEN magnitude_floor(a, -a.e)
    ELSE -(magnitude_floor(a, -a.e) + (IF has_fraction(a, -a.e) THEN 1 ELSE 0))

\* a < b
float_lt(a, b) ==
    IF a.s # b.s THEN a.s < b.s
    ELSE IF a.s = 0 THEN FALSE
    ELSE IF a.s > 0 THEN magnitude_cmp(a, b) < 0
    ELSE magnitude_cmp(a, b) > 0

\* a <= b
float_le(a, b) == a = b \/ float_lt(a, b)

\* the float literals and converted ints of layout.py
FloatOne == float_of_int(1)
FloatTwo == float_of_int(2)
FloatHalf == true_div(1, 2)
FloatTenth == true_div(1, 10)

----------------------------------------------------------------------------
(* pandas operations used by layout.py.                                    *)

\* numpy's argsort on a short array is an insertion sort: stable, ascending.
RECURSIVE argsort(_, _)
argsort(df, by) ==
    IF df = <<>> THEN <<>>
    ELSE LET n    == Len(df)
             done == argsort(SubSeq(df, 1, n - 1), by)
             x    == df[n]
             k    == Cardinality({j \in 1..Len(done) : done[j][by] <= x[by]})
         IN SubSeq(done, 1, k) \o <<x>> \o SubSeq(done, k + 1, Len(done))

\* DataFrame.sort_values(by, ascending): descending order sorts the reversed
\* frame ascending and reverses the result, so ties keep the frame's order.
sort_values(df, by, ascending) ==
    IF ascending THEN argsort(df, by) ELSE Reverse(argsort(Reverse(df), by))

\* DataFrame.head(n): the first n rows, or all but the last -n rows.
head(df, n) ==
    IF n >= 0 THEN SubSeq(df, 1, Min2(n, Len(df)))
    ELSE SubSeq(df, 1, Max2(Len(df) + n, 0))

\* DataFrame.tail(1)
tail1(df) == IF df = <<>> THEN <<>> ELSE <<df[Len(df)]>>

\* The rows of df grouped by value, groups in order of first appearance
\* (the order in which an unsorted outer merge emits the left keys).
RECURSIVE group_by_first(_)
group_by_first(df) ==
    IF df = <<>> THEN <<>>
    ELSE LET h == Head(df)
         IN SelectSeq(df, LAMBDA r : r = h)
              \o group_by_first(SelectSeq(df, LAMBDA r : r # h))

\* pd.merge(left, right, indicator=True, how='outer')
\*   .query('_merge=="left_only"').drop('_merge', axis=1)
\* The join is on all columns, i.e. on row equality.
merge_left_only(left, right) ==
    group_by_first(SelectSeq(left, LAMBDA r : r \notin Range(right)))

\* Series.max() / Series.min() of a column of a non-empty frame
col_max(df, by) == CHOOSE m \in {r[by] : r \in Range(df)} :
                       \A r \in Range(df) : r[by] <= m
col_min(df, by) == CHOOSE m \in {r[by] : r \in Range(df)} :
                       \A r \in Range(df) : r[by] >= m

\* float('nan'): Series.max() of an empty column
NaN == "nan"

----------------------------------------------------------------------------
(* Categorizer and proportion calculator.                                  *)

get_incidence_key(flags, i) == IF flags[i] THEN "secondary" ELSE "primary"

\* the boolean mask of __categorize_entries__ for category i and row r
bound_predicate(r, i, bounds, flags) ==
    LET v == r[get_incidence_key(flags, i)]
    IN  /\ v >= bounds[i]
        /\ \/ v < bounds[i + 1]
           \/ (bounds[i] = bounds[i + 1] /\ v = bounds[i + 1])

\* the pools before the tie-break pass
raw_pools(table, bounds, flags, n) ==
    [i \in 1..n |-> SelectSeq(table, LAMBDA r : bound_predicate(r, i, bounds, flags))]

\* The tie-break pass runs from the last category down to the second, so
\* pool i is reduced by the still unreduced pool i-1.
categorize_entries(table, bounds, flags, n) ==
    LET raw == raw_pools(table, bounds, flags, n)
    IN  [i \in 1..n |-> IF i = 1 THEN raw[1] ELSE merge_left_only(raw[i], raw[i - 1])]

\* len(pool) / len(input_table)
calculate_ratios(pools, table, n) ==
    [i \in 1..n |-> true_div(Len(pools[i]), Len(table))]

\* self.sort_criterias[i]
sort_criteria(flags, i) == IF i = 1 THEN "time_safe" ELSE get_incidence_key(flags, i)

----------------------------------------------------------------------------
(* Display selector.                                                       *)

\* max(math.floor(total_display_regions * ratio), min_display_regions)
get_num_display_regions_for_category(total, ratio, min_regions) ==
    Max2(math_floor(float_mul(float_of_int(total), ratio)), min_regions)

\* one iteration of the loop of __build_display_regions__
select_display(pool, by, num) ==
    LET sorted_entries == sort_values(pool, by, by # "time_safe")
        top            == head(sorted_entries, num)
    IN  IF Len(sorted_entries) > num
        THEN head(top, -1) \o tail1(sorted_entries)
        ELSE top

build_display_regions(pools, rs, flags, total, min_regions, n) ==
    [i \in 1..n |->
        select_display(pools[i], sort_criteria(flags, i),
                       get_num_display_regions_for_category(total, rs[i], min_regions))]

----------------------------------------------------------------------------
(* Search injector.                                                        *)

\* the strings of the model for which str.isnumeric() is true
NumericStrings == {"1", "2"}

isnumeric(query) == query \in NumericStrings

search_type(query) == IF isnumeric(query) THEN "postcode" ELSE "region"

\* df[df[search_type] == query]
matching(df, field, query) == SelectSeq(df, LAMBDA r : r[field] = query)

\* Variant of can_insert that forgets the "already displayed" test.
can_insert_unchecked(pools, display, query, i) ==
    /\ query # ""
    /\ Len(matching(pools[i], search_type(query), query)) # 0

\* the condition under which category i receives the searched rows
can_insert(pools, display, query, i) ==
    /\ query # ""
    /\ Len(matching(pools[i], search_type(query), query)) # 0
    /\ Len(matching(display[i], search_type(query), query)) = 0

\* Variant of add_searched_region that looks the query up in every pool
\* instead of the pool of the category that receives the rows.
add_searched_region_any_pool(pools, display, query, flags, n) ==
    LET hits == {i \in 1..n : can_insert(pools, display, query, i)}
    IN  IF hits = {} THEN display
        ELSE LET i  == CHOOSE j \in hits : \A h \in hits : j <= h
                 by == sort_criteria(flags, i)
             IN  [display EXCEPT ![i] =
                     sort_values(display[i] \o matching(Flatten(pools), search_type(query), query),
                                 by, by = get_incidence_key(flags, i))]

\* display_regions after __add_searched_region__(query): the first category
\* that can take the rows takes them and is sorted again; the loop breaks.
add_searched_region(pools, display, query, flags, n) ==
    LET hits == {i \in 1..n : can_insert(pools, display, query, i)}
    IN  IF hits = {} THEN display
        ELSE LET i  == CHOOSE j \in hits : \A h \in hits : j <= h
                 by == sort_criteria(flags, i)
             IN  [display EXCEPT ![i] =
                     sort_values(display[i] \o matching(pools[i], search_type(query), query),
                                 by, by = get_incidence_key(flags, i))]

----------------------------------------------------------------------------
(* Range auto-expander.                                                    *)

\* Variant of attempt_adjust_y_range that pads below the candidate by the old
\* lower bound instead of the top padding.
attempt_adjust_y_range_bottom_padding(yr, y_value) ==
    IF float_lt(y_value, yr[1]) THEN <<float_add(y_value, yr[1]), yr[2]>> ELSE yr

\* y_value - (self.y_range[1] - 1)
attempt_adjust_y_range(yr, y_value) ==
    IF float_lt(y_value, yr[1])
    THEN <<float_sub(y_value, float_sub(yr[2], FloatOne)), yr[2]>>
    ELSE yr

RECURSIVE adjust_y_range_all(_, _)
adjust_y_range_all(yr, ys) ==
    IF ys = <<>> THEN yr
    ELSE adjust_y_range_all(attempt_adjust_y_range(yr, Head(ys)), Tail(ys))

----------------------------------------------------------------------------
(* Branch resolver.                                                        *)

\* self.min_space_x = 0.09, in units of 1/1000
DEFAULT_MIN_SPACE_X == 90

\* a line_x_points / line_y_points entry that is None
None == <<>>

\* Variant of shift_entry that moves the last point in either direction.
shift_entry_last_point(e, consecutive, direction) ==
    LET adjustment == IF direction = "left"
                      THEN -(DEFAULT_MIN_SPACE_X * consecutive)
                      ELSE DEFAULT_MIN_SPACE_X * consecutive
        x == e.line_x_points
    IN  [e EXCEPT !.line_x_points =
                      <<x[1], x[2] + adjustment, x[3] + adjustment, x[4] + adjustment>>,
                  !.text_x = e.text_x + adjustment]

\* the body of "if is_branched | consecutive_branches != 0"
shift_entry(e, consecutive, direction) ==
    LET adjustment == IF direction = "left"
                      THEN -(DEFAULT_MIN_SPACE_X * consecutive)
                      ELSE DEFAULT_MIN_SPACE_X * consecutive
        x == e.line_x_points
    IN  [e EXCEPT !.line_x_points =
                      IF direction = "left"
                      THEN <<x[1] + adjustment, x[2] + adjustment, x[3] + adjustment, x[4]>>
                      ELSE <<x[1], x[2] + adjustment, x[3] + adjustment, x[4] + adjustment>>,
                  !.text_x = e.text_x + adjustment]

\* entries i, i-1, ..., 1 of data are still to be visited
RECURSIVE adjust_from(_, _, _, _)
adjust_from(data, i, consecutive_branches, direction) ==
    IF i = 0 THEN data
    ELSE IF data[i].line_x_points = None
    THEN adjust_from(data, i - 1, consecutive_branches, direction)
    ELSE LET e           == data[i]
             is_branched == e.line_y_points[2] # e.line_y_points[3]
             \* (is_branched | consecutive_branches) != 0
             shifted     == is_branched \/ consecutive_branches # 0
             e2          == IF shifted
                            THEN shift_entry(e, consecutive_branches, direction)
                            ELSE e
             c1          == IF shifted THEN consecutive_branches + 1
                            ELSE consecutive_branches
             c2          == IF ~is_branched THEN 0 ELSE c1
         IN  adjust_from([data EXCEPT ![i] = e2], i - 1, c2, direction)

adjust_branches(data, direction) == adjust_from(data, Len(data), 0, direction)

----------------------------------------------------------------------------
(* Plot-data builder.                                                      *)

\* box_top_y when category i is reached: 1, then "box_top_y -= box_size"
\* after every category (a category of ratio 0 subtracts nothing)
RECURSIVE box_top(_, _)
box_top(rs, i) ==
    IF i = 1 THEN FloatOne ELSE float_sub(box_top(rs, i - 1), rs[i - 1])

\* ((datum - bot) / (top - bot)) if top != bot else 0.5
line_y_relative(datum, top_region_datum, bot_region_datum) ==
    IF top_region_datum # bot_region_datum
    THEN true_div(datum - bot_region_datum, top_region_datum - bot_region_datum)
    ELSE FloatHalf

\* box_top_y - ((box_size - (padding * 2)) * line_y_relative) - padding
line_y_at(box_top_y, box_size, padding, relative) ==
    float_sub(float_sub(box_top_y,
                        float_mul(float_sub(box_size, float_mul(padding, FloatTwo)),
                                  relative)),
              padding)

\* the rows of category i in emission order, each with its category and
\* line_y; padding = box_size * 0.1
category_items(i, curr_top, by, box_top_y, box_size, padding) ==
    [k \in 1..Len(curr_top) |->
        [category |-> i,
         row      |-> curr_top[k],
         line_y   |-> line_y_at(box_top_y, box_size, padding,
                                line_y_relative(curr_top[k][by], col_max(curr_top, by),
                                                col_min(curr_top, by)))]]

\* the displayed rows in emission order; a category of ratio 0 is skipped
plot_items(display, rs, flags) ==
    Flatten([i \in 1..Len(rs) |->
        IF rs[i] = FloatZero THEN <<>>
        ELSE category_items(i, display[i], sort_criteria(flags, i), box_top(rs, i),
                            rs[i], float_mul(rs[i], FloatTenth))])

\* text_y of a row whose line is at line_y, the label before it at last_text_y
text_y_of(last_text_y, line_y, msy) ==
    IF float_lt(float_sub(last_text_y, line_y), msy)
    THEN float_sub(last_text_y, msy)
    ELSE line_y

\* text_y of every item: last_text_y starts at float('inf')
RECURSIVE label_ys(_, _)
label_ys(line_ys, msy) ==
    IF line_ys = <<>> THEN <<>>
    ELSE LET n      == Len(line_ys)
             before == label_ys(SubSeq(line_ys, 1, n - 1), msy)
         IN  Append(before,
                    text_y_of(IF n > 1 THEN before[n - 1] ELSE FloatInf,
                              line_ys[n], msy))

line_entry(item, text_y) ==
    [line_x_points       |-> <<1000, 1250, 1250, 1500>>,
     line_y_points       |-> <<item.line_y, item.line_y, text_y, text_y>>,
     text_x              |-> 1500,
     text_y              |-> text_y,
     region_name         |-> item.row.region,
     category            |-> item.category,
     postcode            |-> item.row.postcode,
     time_safe           |-> item.row.time_safe,
     primary_incidence   |-> item.row.primary,
     secondary_incidence |-> item.row.secondary]

\* the index of the entry moved to the highlighted collection, 0 if none
searched_index(plot_data, searched) ==
    LET hits == {i \in 1..Len(plot_data) :
                    \/ plot_data[i].region_name = searched
                    \/ plot_data[i].postcode = searched}
    IN  IF hits = {} THEN 0 ELSE CHOOSE i \in hits : \A h \in hits : i >= h

remove_at(s, i) == SubSeq(s, 1, i - 1) \o SubSeq(s, i + 1, Len(s))

\* the entries before the branch resolver runs
place_labels(items, text_ys) ==
    [k \in 1..Len(items) |-> line_entry(items[k], text_ys[k])]

\* Variant of place_items that leaves every label on its line.
place_items_on_line(items, msy) ==
    place_labels(items, [k \in 1..Len(items) |-> items[k].line_y])

place_items(items, msy) ==
    place_labels(items, label_ys([k \in 1..Len(items) |-> items[k].line_y], msy))

\* Variant of isolate_at that copies the entry to the highlighted collection
\* without deleting it from the main one.
isolate_at_keep(plot_data, hit, yr) ==
    [source          |-> plot_data,
     searched_source |-> IF hit = 0 THEN <<>> ELSE <<plot_data[hit]>>,
     y_range         |-> yr]

\* "Isolate searched region": entry hit (if any) moves to the highlighted
\* collection
isolate_at(plot_data, hit, yr) ==
    [source          |-> IF hit = 0 THEN plot_data ELSE remove_at(plot_data, hit),
     searched_source |-> IF hit = 0 THEN <<>> ELSE <<plot_data[hit]>>,
     y_range         |-> yr]

isolate_searched(plot_data, searched, yr) ==
    isolate_at(plot_data, searched_index(plot_data, searched), yr)

\* Variant of finish_plot_data that never checks a label against the viewport.
finish_plot_data_fixed_range(placed, searched, yr) ==
    isolate_searched(adjust_branches(placed, "right"), searched, yr)

\* the part of __build_plot_data__ after the loop over the categories; the
\* viewport has been checked against every text_y in emission order
finish_plot_data(placed, searched, yr) ==
    isolate_searched(adjust_branches(placed, "right"), searched,
                     adjust_y_range_all(yr, [k \in 1..Len(placed) |-> placed[k].text_y]))

\* __build_plot_data__: the two collections and the viewport it leaves
build_plot_data(display, rs, flags, searched, msy, yr) ==
    finish_plot_data(place_items(plot_items(display, rs, flags), msy), searched, yr)

----------------------------------------------------------------------------
(* Phase boxes (the legend side of the chart).                             *)

\* the dummy entry appended for a category of ratio 0
dummy_box == [box_top_y |-> None, text_x |-> None, text_y |-> None,
              line_x_points |-> None, line_y_points |-> None]

\* The state of the loop of __draw_phase_boxes__ after i iterations.
RECURSIVE phase_boxes(_, _, _, _)
phase_boxes(rs, msy, yr, i) ==
    IF i = 0
    THEN [box_data |-> <<>>, last_text_y |-> float_of_int(99999), y_range |-> yr]
    ELSE LET before     == phase_boxes(rs, msy, yr, i - 1)
             box_size   == rs[i]
             box_top_y  == box_top(rs, i)
             \* box_top_y - (box_size / 2)
             box_middle == float_sub(box_top_y, float_half(box_size))
             \* box_size >= self.min_space_y * 2.5
             centered   == float_le(float_mul(msy, true_div(5, 2)), box_size)
             \* (last_text_y - box_middle) / min_space_multiplier < self.min_space_y
             text_y     == IF /\ ~centered
                              /\ float_lt(float_half(float_sub(before.last_text_y,
                                                               box_middle)), msy)
                           THEN float_sub(before.last_text_y, float_mul(msy, FloatTwo))
                           ELSE box_middle
             entry      == IF centered
                           THEN [box_top_y |-> box_top_y, text_x |-> 0, text_y |-> text_y,
                                 line_x_points |-> None, line_y_points |-> None]
                           ELSE [box_top_y |-> box_top_y, text_x |-> -1500, text_y |-> text_y,
                                 line_x_points |-> <<-1475, -1250, -1250, -1000>>,
                                 line_y_points |-> <<text_y, text_y, box_middle, box_middle>>]
         IN  IF box_size = FloatZero
             THEN [before EXCEPT !.box_data = Append(@, dummy_box)]
             ELSE [box_data    |-> Append(before.box_data, entry),
                   last_text_y |-> text_y,
                   y_range     |-> attempt_adjust_y_range(before.y_range, text_y)]

\* __draw_phase_boxes__ up to the rendering calls: the legend entries after
\* the branch resolver, and the viewport
draw_phase_boxes(rs, msy, yr) ==
    LET done == phase_boxes(rs, msy, yr, Len(rs))
    IN  [box_data |-> adjust_branches(done.box_data, "left"),
         y_range  |-> done.y_range]

----------------------------------------------------------------------------
(* Event handlers (closures of __generate_inputs__).                       *)

\* the layout state left by a handler that ends in __build_plot_data__
with_plot(display, searched, plot) ==
    [display_regions |-> display,
     last_searched   |-> searched,
     source          |-> plot.source,
     searched_source |-> plot.searched_source,
     y_range         |-> plot.y_range]

\* self.__build_plot_data__() once display_regions and last_searched are set
rebuild_plot(display, searched, yr) ==
    with_plot(display, searched,
              build_plot_data(display, ratios, calc_with_secondary_incidence,
                              searched, min_space_y, yr))

\* handle_search(attr, old, new) on the layout state st
handle_search(st, new) ==
    rebuild_plot(add_searched_region(categorized_entries, st.display_regions, new,
                                     calc_with_secondary_incidence, num_categories),
                 new, st.y_range)

\* the viewport when handle_reset reaches its second statement:
\* searchbar.value = "" fires handle_search("") when it changes the value
y_range_after_clear(st, value) ==
    IF value # "" THEN handle_search(st, "").y_range ELSE st.y_range

\* Variant of handle_reset that does not call __build_display_regions__.
handle_reset_keep_display(st, value) ==
    rebuild_plot(st.display_regions, "", y_range_after_clear(st, value))

\* handle_reset(event) on the layout state st
handle_reset(st, value) ==
    rebuild_plot(build_display_regions(categorized_entries, ratios,
                                       calc_with_secondary_incidence,
                                       total_display_regions, min_display_regions,
                                       num_categories),
                 "", y_range_after_clear(st, value))

\* the part of the layout state the handlers read and write
layout_state == [display_regions |-> display_regions,
                 last_searched   |-> last_searched,
                 source          |-> source,
                 searched_source |-> searched_source,
                 y_range         |-> y_range]

----------------------------------------------------------------------------
(* Inputs.                                                                 *)

\* the <<region name, postcode>> pairs of the interactive rows: a name
\* shared by two postcodes, a postcode shared by two names
RegionCodes == {<<"a", "1">>, <<"b", "1">>, <<"a", "2">>}

\* what a user can type into the search bar
Queries == {"", "a", "b", "1", "2"}

\* DEFAULT_Y_RANGE = (-0.075, 1.075)
DEFAULT_Y_RANGE == <<true_div(-75, 1000), true_div(1075, 1000)>>

\* DEFAULT_MIN_SPACE_Y = 0.06
DEFAULT_MIN_SPACE_Y == true_div(6, 100)

\* the configured min_space_y of the interactive specification: a wide
\* spacing (0.2) under which the rows of one band already collide
MinSpaceChoices == {true_div(2, 10)}

DEFAULT_TOTAL_DISPLAY_REGIONS == 12
DEFAULT_MIN_DISPLAY_REGIONS == 2

\* rows of the interactive specification: a region with incidence has no
\* time-safe count
InteractiveRows ==
    {[region |-> rc[1], postcode |-> rc[2], primary |-> v[1], secondary |-> 0,
      time_safe |-> v[2]] :
        rc \in RegionCodes,
        v \in ((1..MaxInc) \X {0}) \cup ({0} \X (0..MaxSafe))}

\* rows of the categorizer specification: only the incidence columns vary
CategorizerRows ==
    [region : {"a"}, postcode : {"1"}, primary : 0..MaxInc,
     secondary : 0..MaxInc, time_safe : {0}]

\* the members __init__ sets before it computes anything
InitMembers ==
    /\ pc = "new"
    /\ ratios = <<>>
    /\ categorized_entries = <<>>
    /\ display_regions = <<>>
    /\ last_searched = ""
    /\ source = <<>>
    /\ searched_source = <<>>
    /\ searchbar_value = ""
    /\ box_data = <<>>
    /\ last_event = "none"
    /\ initial_display = <<>>
    /\ ever_injected = FALSE

InitRangeIdle ==
    /\ range_pc = "idle"
    /\ range_y = FloatZero
    /\ range_in = DEFAULT_Y_RANGE
    /\ range_once = DEFAULT_Y_RANGE

InitCommon ==
    /\ InitMembers
    /\ InitRangeIdle
    /\ y_range = DEFAULT_Y_RANGE

InitBranchIdle ==
    /\ branch_pc = "idle"
    /\ branch_direction = "right"
    /\ branch_in = <<>>
    /\ branch_out = <<>>

\* the interactive specification: the two-phase configuration [0, 1], any
\* table of up to MaxRows rows, small display budgets, a wide label spacing
Init ==
    /\ InitCommon
    /\ InitBranchIdle
    /\ input_table \in SeqsUpTo(InteractiveRows, MaxRows)
    /\ num_categories = 2
    /\ lower_bounds = <<0, 1>>
    /\ calc_with_secondary_incidence = <<FALSE, FALSE>>
    /\ total_display_regions \in 1..MaxTotalDisplay
    /\ min_display_regions \in 0..MaxMinDisplay
    /\ min_space_y \in MinSpaceChoices

\* the categorizer specification: any number of categories, any lower
\* bounds (monotonic or not), any incidence-source flags
InitCat ==
    /\ InitCommon
    /\ InitBranchIdle
    /\ input_table \in SeqsUpTo(CategorizerRows, MaxCatRows)
    /\ num_categories \in 0..MaxCats
    /\ lower_bounds \in [1..num_categories -> 0..MaxInc]
    /\ calc_with_secondary_incidence \in [1..num_categories -> BOOLEAN]
    /\ total_display_regions = DEFAULT_TOTAL_DISPLAY_REGIONS
    /\ min_display_regions = DEFAULT_MIN_DISPLAY_REGIONS
    /\ min_space_y = DEFAULT_MIN_SPACE_Y

----------------------------------------------------------------------------
(* Actions.                                                                *)

\* self.input_table[self.primary_incidence_key].max() + 1
appended_bound(table) ==
    IF table = <<>> THEN NaN ELSE col_max(table, "primary") + 1

\* the assignments of a handler to the layout state
SetLayout(st) ==
    /\ display_regions' = st.display_regions
    /\ last_searched' = st.last_searched
    /\ source' = st.source
    /\ searched_source' = st.searched_source
    /\ y_range' = st.y_range

SetLegend(drawn) ==
    /\ box_data' = drawn.box_data
    /\ y_range' = drawn.y_range

\* __init__ from __build_display_regions__ on
SetConstructed(pools, rs, st) ==
    /\ categorized_entries' = pools
    /\ ratios' = rs
    /\ initial_display' = st.display_regions
    /\ SetLayout(st)

construct_display(pools, rs) ==
    SetConstructed(pools, rs,
        LET display == build_display_regions(pools, rs, calc_with_secondary_incidence,
                                             total_display_regions, min_display_regions,
                                             num_categories)
        IN  with_plot(display, "",
                      build_plot_data(display, rs, calc_with_secondary_incidence,
                                      "", min_space_y, y_range)))

construct_ratios(pools) ==
    construct_display(pools, calculate_ratios(pools, input_table, num_categories))

\* VisualizationLayout.__init__
Construct ==
    /\ pc = "new"
    /\ lower_bounds' = Append(lower_bounds, appended_bound(input_table))
    /\ IF num_categories > 0 /\ input_table = <<>>
       THEN \* len(pool) / 0 in __calculate_ratios__ raises ZeroDivisionError
            /\ pc' = "error"
            /\ UNCHANGED <<y_range, ratios, categorized_entries, display_regions,
                           last_searched, source, searched_source, last_event,
                           initial_display>>
       ELSE /\ pc' = "constructed"
            /\ last_event' = "init"
            /\ construct_ratios(categorize_entries(input_table, lower_bounds',
                                                   calc_with_secondary_incidence,
                                                   num_categories))
    /\ UNCHANGED <<input_table, num_categories, calc_with_secondary_incidence,
                   total_display_regions, min_display_regions, min_space_y,
                   searchbar_value, box_data, ever_injected>>
    /\ UNCHANGED <<branch_vars, range_vars>>

\* VisualizationLayout.render: draws the plot and registers the handlers
Render ==
    /\ pc = "constructed"
    /\ SetLegend(draw_phase_boxes(ratios, min_space_y, y_range))
    /\ pc' = "rendered"
    /\ last_event' = "render"
    /\ UNCHANGED <<input_table, num_categories, lower_bounds,
                   calc_with_secondary_incidence, total_display_regions,
                   min_display_regions, min_space_y, ratios, categorized_entries,
                   display_regions, last_searched, source, searched_source,
                   searchbar_value, initial_display, ever_injected>>
    /\ UNCHANGED <<branch_vars, range_vars>>

\* the user changes the value of the search bar
Search(new) ==
    /\ pc = "rendered"
    /\ new # searchbar_value
    /\ SetLayout(handle_search(layout_state, new))
    /\ searchbar_value' = new
    /\ last_event' = "search"
    /\ ever_injected' = (ever_injected \/ display_regions' # display_regions)
    /\ UNCHANGED <<pc, input_table, num_categories, lower_bounds,
                   calc_with_secondary_incidence, total_display_regions,
                   min_display_regions, min_space_y, ratios, categorized_entries,
                   box_data, initial_display>>
    /\ UNCHANGED <<branch_vars, range_vars>>

\* the user clicks the reset button
Reset ==
    /\ pc = "rendered"
    /\ SetLayout(handle_reset(layout_state, searchbar_value))
    /\ searchbar_value' = ""
    /\ last_event' = "reset"
    /\ UNCHANGED <<pc, input_table, num_categories, lower_bounds,
                   calc_with_secondary_incidence, total_display_regions,
                   min_display_regions, min_space_y, ratios, categorized_entries,
                   box_data, initial_display, ever_injected>>
    /\ UNCHANGED <<branch_vars, range_vars>>

Next ==
    \/ Construct
    \/ Render
    \/ \E new \in Queries : Search(new)
    \/ Reset

Spec == Init /\ [][Next]_vars

NextCat == Construct

SpecCat == InitCat /\ [][NextCat]_vars

----------------------------------------------------------------------------
(* Branch resolver harness: __adjust_branches__ applied to any short       *)
(* sequence of branched, unbranched and line-less entries, in either       *)
(* direction.                                                              *)

BranchKinds == {"branched", "unbranched", "none"}

\* an entry as __build_plot_data__ ("right") or __draw_phase_boxes__
\* ("left") hands it to the resolver
branch_entry(kind, direction) ==
    IF kind = "none"
    THEN [line_x_points |-> None, line_y_points |-> None, text_x |-> None]
    ELSE [line_x_points |-> IF direction = "left"
                            THEN <<-1475, -1250, -1250, -1000>>
                            ELSE <<1000, 1250, 1250, 1500>>,
          line_y_points |-> IF kind = "branched"
                            THEN <<FloatOne, FloatOne, FloatZero, FloatZero>>
                            ELSE <<FloatOne, FloatOne, FloatOne, FloatOne>>,
          text_x        |-> IF direction = "left" THEN -1500 ELSE 1500]

InitBranch ==
    /\ InitCommon
    /\ input_table = <<>>
    /\ num_categories = 0
    /\ lower_bounds = <<>>
    /\ calc_with_secondary_incidence = <<>>
    /\ total_display_regions = DEFAULT_TOTAL_DISPLAY_REGIONS
    /\ min_display_regions = DEFAULT_MIN_DISPLAY_REGIONS
    /\ min_space_y = DEFAULT_MIN_SPACE_Y
    /\ branch_pc = "input"
    /\ branch_direction \in {"left", "right"}
    /\ \E kinds \in SeqsUpTo(BranchKinds, MaxBranchEntries) :
           branch_in = [i \in 1..Len(kinds) |-> branch_entry(kinds[i], branch_direction)]
    /\ branch_out = <<>>

ResolveBranches ==
    /\ branch_pc = "input"
    /\ branch_out' = adjust_branches(branch_in, branch_direction)
    /\ branch_pc' = "done"
    /\ UNCHANGED <<branch_direction, branch_in>>
    /\ UNCHANGED <<layout_vars, range_vars>>

NextBranch == ResolveBranches

SpecBranch == InitBranch /\ [][NextBranch]_vars

----------------------------------------------------------------------------
(* Range expander harness: __attempt_adjust_y_range__ called twice with    *)
(* the same candidate y on any configured viewport.                        *)

\* configured lower bounds: the default, none, inside the box, far below
RangeLowers == {DEFAULT_Y_RANGE[1], FloatZero, true_div(1, 4), true_div(-1, 2)}

\* configured upper bounds: below the box top, the box top, the default,
\* far above
RangeUppers == {FloatHalf, FloatOne, DEFAULT_Y_RANGE[2], true_div(3, 2)}

\* candidate label positions, in tenths of the box height
RangeCandidates == {true_div(k, 10) : k \in (-MaxRangeDepth)..10}

InitRange ==
    /\ InitMembers
    /\ InitBranchIdle
    /\ input_table = <<>>
    /\ num_categories = 0
    /\ lower_bounds = <<>>
    /\ calc_with_secondary_incidence = <<>>
    /\ total_display_regions = DEFAULT_TOTAL_DISPLAY_REGIONS
    /\ min_display_regions = DEFAULT_MIN_DISPLAY_REGIONS
    /\ min_space_y = DEFAULT_MIN_SPACE_Y
    /\ y_range \in RangeLowers \X RangeUppers
    /\ range_pc = "input"
    /\ range_y \in RangeCandidates
    /\ range_in = y_range
    /\ range_once = y_range

\* self.__attempt_adjust_y_range__(range_y), the first or the second time
AttemptAdjust ==
    /\ range_pc \in {"input", "once"}
    /\ y_range' = attempt_adjust_y_range(y_range, range_y)
    /\ range_once' = IF range_pc = "input" THEN y_range' ELSE range_once
    /\ range_pc' = IF range_pc = "input" THEN "once" ELSE "twice"
    /\ UNCHANGED <<range_y, range_in>>
    /\ UNCHANGED <<pc, input_table, num_categories, lower_bounds,
                   calc_with_secondary_incidence, total_display_regions,
                   min_display_regions, min_space_y, ratios,
                   categorized_entries, display_regions, last_searched, source,
                   searched_source, searchbar_value, box_data, last_event,
                   initial_display, ever_injected>>
    /\ UNCHANGED branch_vars

NextRange == AttemptAdjust

SpecRange == InitRange /\ [][NextRange]_vars

----------------------------------------------------------------------------
(* Properties.                                                             *)

Constructed == pc \in {"constructed", "rendered"}

Categories == 1..num_categories

\* the lower bounds as configured, without the appended max+1
configured_bounds == SubSeq(lower_bounds, 1, num_categories)

NonDecreasing(b) == \A i \in 1..(Len(b) - 1) : b[i] <= b[i + 1]

pool_rows(i) == Range(categorized_entries[i])

display_rows(i) == Range(display_regions[i])

in_bounds(v) == lower_bounds[1] <= v /\ v < lower_bounds[num_categories + 1]

\* C1: after the categorizer runs, for non-decreasing lower bounds and any
\* incidence-source flags, the pools are pairwise disjoint and their union
\* is the set of input rows whose incidence lies in [bounds[0], bounds[N]).
\* With mixed flags "incidence" is read in the way most favourable to the
\* claim: a row with both incidences in range must be in some pool, a row
\* in some pool must have one of its incidences in range.
C1_PoolsPartitionInput ==
    (Constructed /\ NonDecreasing(configured_bounds)) =>
        /\ \A i, j \in Categories : i < j => pool_rows(i) \cap pool_rows(j) = {}
        /\ \A r \in Range(input_table) :
              /\ (in_bounds(r.primary) /\ in_bounds(r.secondary))
                    => \E i \in Categories : r \in pool_rows(i)
              /\ (\E i \in Categories : r \in pool_rows(i))
                    => (in_bounds(r.primary) \/ in_bounds(r.secondary))

\* sum(self.ratios): the ratios added from left to right, starting at 0
RECURSIVE ratio_sum(_)
ratio_sum(rs) ==
    IF rs = <<>> THEN FloatZero
    ELSE float_add(ratio_sum(SubSeq(rs, 1, Len(rs) - 1)), rs[Len(rs)])

\* the floating tolerance of a sum of ratios, 2^-30
RatioTolerance == [s |-> 1, e |-> -85, h |-> HalfPairBase, l |-> 0]

\* |a - b| <= RatioTolerance
close_to(a, b) ==
    /\ float_le(float_sub(a, b), RatioTolerance)
    /\ float_le(float_sub(b, a), RatioTolerance)

\* C2: whenever the input table has at least one row, the ratios sum to 1
\* within floating tolerance (the pool sizes sum to the row count), for every
\* configured lower_bounds.  Stated for at least one category, non-decreasing
\* bounds and primary incidence throughout, where only lower_bounds[0] is
\* left to vary.
C2_RatiosSumToOne ==
    (/\ Constructed
     /\ Len(input_table) > 0
     /\ num_categories >= 1
     /\ NonDecreasing(configured_bounds)
     /\ \A i \in Categories : ~calc_with_secondary_incidence[i])
        => /\ close_to(ratio_sum(ratios), FloatOne)
           /\ SumSeq([i \in Categories |-> Len(categorized_entries[i])]) = Len(input_table)

\* C9: construction with zero categories or with non-monotonic lower bounds
\* ends in the error state and produces no pools, DisplaySets or LineEntries.
C9_FatalOnBadConfiguration ==
    (pc # "new" /\ (num_categories = 0 \/ ~NonDecreasing(configured_bounds)))
        => /\ pc = "error"
           /\ categorized_entries = <<>>
           /\ display_regions = <<>>
           /\ source = <<>>

\* C10: a row that satisfies the bound predicate of two adjacent categories
\* i-1 and i ends in pool i-1 and not in pool i, and every row ends in at
\* most one pool.
C10_TieBreakTowardBetter ==
    (Constructed /\ NonDecreasing(configured_bounds)) =>
        /\ \A i \in Categories \ {1} : \A r \in Range(input_table) :
              (/\ bound_predicate(r, i - 1, lower_bounds, calc_with_secondary_incidence)
               /\ bound_predicate(r, i, lower_bounds, calc_with_secondary_incidence))
                  => (r \in pool_rows(i - 1) /\ r \notin pool_rows(i))
        /\ \A r \in Range(input_table) :
              Cardinality({i \in Categories : r \in pool_rows(i)}) <= 1

\* the rows of pool i that the query matches
pool_matches(i, query) == Range(matching(categorized_entries[i], search_type(query), query))

\* the query matches a row of pool i that DisplaySet i does not hold
hidden_match(i, query) == \E r \in pool_matches(i, query) : r \notin display_rows(i)

\* C3: after construction, any sequence of search events and then a reset
\* event, every DisplaySet holds the rows of the initial Display Selector
\* run in the same order, and last_searched is the empty string.
C3_ResetRestoresDefault ==
    last_event = "reset" => (display_regions = initial_display /\ last_searched = "")

\* a reset that followed a search which had inserted rows
C3_Witness ==
    /\ last_event = "reset"
    /\ ever_injected
    /\ display_regions = initial_display

\* C4: a search event whose query is the empty string leaves every
\* DisplaySet equal to the Display Selector's output, also when a previous
\* search injected a row.
C4_EmptyQueryResets ==
    (last_event = "search" /\ searchbar_value = "") => display_regions = initial_display

\* C5: in every state after construction and for every category i,
\* min(min_display_regions, |pool i|) <= |DisplaySet i| <= |pool i| and
\* DisplaySet i contains only rows of pool i.
C5_DisplaySizeBounds ==
    Constructed =>
        \A i \in Categories :
            /\ Min2(min_display_regions, Len(categorized_entries[i])) <= Len(display_regions[i])
            /\ Len(display_regions[i]) <= Len(categorized_entries[i])
            /\ display_rows(i) \subseteq pool_rows(i)

\* a search has filled a DisplaySet up to its whole pool
C5_Witness ==
    /\ last_event = "search"
    /\ \E i \in Categories :
          /\ Len(initial_display[i]) < Len(categorized_entries[i])
          /\ Len(display_regions[i]) = Len(categorized_entries[i])

\* C6: a search whose query matches no row of any pool, or only rows that
\* their category's DisplaySet already holds, leaves every DisplaySet as it
\* was (same rows, same order).
C6_NoOpSearch ==
    [][(last_event' = "search"
          /\ \A i \in Categories : ~hidden_match(i, searchbar_value'))
        => display_regions' = display_regions]_vars

\* a search for a displayed row, in a session in which nothing was inserted
C6_Witness ==
    /\ last_event = "search"
    /\ last_searched # ""
    /\ ~ever_injected
    /\ \E i \in Categories :
          /\ pool_matches(i, last_searched) # {}
          /\ pool_matches(i, last_searched) \subseteq display_rows(i)

\* C7: a search whose query matches a row of pool k that DisplaySet k does
\* not hold adds exactly one entry to DisplaySet k and leaves every other
\* DisplaySet unchanged.
C7_SearchAddsExactlyOne ==
    [][last_event' = "search"
        => \A k \in Categories :
              hidden_match(k, searchbar_value')
                  => /\ Len(display_regions'[k]) = Len(display_regions[k]) + 1
                     /\ \A j \in Categories \ {k} :
                           display_regions'[j] = display_regions[j]]_vars

\* the entries of the harness input that have a line
lined == {i \in 1..Len(branch_in) : branch_in[i].line_x_points # None}

branched_at(i) == branch_in[i].line_y_points[2] # branch_in[i].line_y_points[3]

\* the length of the run of branched entries that directly follows entry i
run_below(i) ==
    Cardinality({j \in lined :
                    /\ j > i
                    /\ \A m \in lined : (i < m /\ m <= j) => branched_at(m)})

\* the offset the staircase gives entry i
staircase_offset(i) ==
    IF branch_direction = "left"
    THEN -(DEFAULT_MIN_SPACE_X * run_below(i))
    ELSE DEFAULT_MIN_SPACE_X * run_below(i)

\* C8: walking from last to first, a branched entry is shifted by
\* min_space_x times the number of branched entries of its run below it
\* (0, 1, 2, ...), the unbranched entry that ends a run of length k by
\* k * min_space_x, and an entry that directly follows (is processed right
\* after) an unbranched entry by 0; "left" applies the negated offset to
\* x[0], x[1], x[2] and the label x, "right" the offset to x[1], x[2], x[3]
\* and the label x.
C8_BranchStaircase ==
    branch_pc = "done" =>
        /\ Len(branch_out) = Len(branch_in)
        /\ \A i \in 1..Len(branch_in) :
              IF i \notin lined THEN branch_out[i] = branch_in[i]
              ELSE LET x   == branch_in[i].line_x_points
                       off == staircase_offset(i)
                   IN  /\ branch_out[i].text_x = branch_in[i].text_x + off
                       /\ branch_out[i].line_y_points = branch_in[i].line_y_points
                       /\ branch_out[i].line_x_points =
                              IF branch_direction = "left"
                              THEN <<x[1] + off, x[2] + off, x[3] + off, x[4]>>
                              ELSE <<x[1], x[2] + off, x[3] + off, x[4] + off>>

\* leftward: an unbranched entry that ends a run of two branched entries
C8_Witness ==
    /\ branch_pc = "done"
    /\ branch_direction = "left"
    /\ \E i \in lined :
          /\ ~branched_at(i)
          /\ run_below(i) = 2
          /\ branch_out[i].line_x_points[1] = -1475 - 2 * DEFAULT_MIN_SPACE_X

----------------------------------------------------------------------------
(* Display selector, label placement and viewport properties.              *)

\* display_count of category i
display_count(i) ==
    get_num_display_regions_for_category(total_display_regions, ratios[i],
                                         min_display_regions)

\* pool i in the order in which the Display Selector ranks it
sorted_pool(i) ==
    sort_values(categorized_entries[i], sort_criteria(calc_with_secondary_incidence, i),
                sort_criteria(calc_with_secondary_incidence, i) # "time_safe")

\* C11: the DisplaySet the selector builds for category i has exactly
\* min(display_count[i], |pool[i]|) rows; when the pool is larger than
\* display_count[i], its last row is the worst-ranked row of the sorted pool
\* and its other rows are the first display_count[i]-1 rows of the sorted
\* pool (display_count[i] = 0 included).
C11_SelectorSentinel ==
    Constructed =>
        \A i \in Categories :
            /\ Len(initial_display[i]) = Min2(display_count(i), Len(categorized_entries[i]))
            /\ Len(categorized_entries[i]) > display_count(i)
                  => initial_display[i] =
                         SubSeq(sorted_pool(i), 1, display_count(i) - 1)
                             \o <<sorted_pool(i)[Len(sorted_pool(i))]>>

\* The local plot_data of the last __build_plot_data__ pass, in emission
\* order, before "Isolate searched region". The pass reads display_regions,
\* ratios, the sort criteria and min_space_y, all of which the state holds.
plot_data ==
    adjust_branches(
        place_items(plot_items(display_regions, ratios, calc_with_secondary_incidence),
                    min_space_y),
        "right")

\* the two collections are what "Isolate searched region" makes of data
stored_from(isolated) ==
    /\ source = isolated.source
    /\ searched_source = isolated.searched_source

\* the two collections are what the last pass made of plot_data
last_pass_stored == stored_from(isolate_searched(plot_data, last_searched, y_range))

\* The rounding error of float_add(a, b): a + b = float_add(a, b) + the
\* result, exactly (Knuth's error-free sum, every step a float operation).
sum_error_of(a, b, total, b_part) ==
    float_add(float_sub(a, float_sub(total, b_part)), float_sub(b, b_part))

sum_error(a, b) ==
    sum_error_of(a, b, float_add(a, b), float_sub(float_add(a, b), a))

\* y <= a - b as real numbers: the float nearest to a - b lies above y, or
\* it is y and was not rounded up
real_le_difference(y, a, b) ==
    \/ float_lt(y, float_sub(a, b))
    \/ /\ y = float_sub(a, b)
       /\ sum_error(a, float_neg(b)).s >= 0

\* C12 as stated: in the LineEntries of one Plot-Data Builder pass, in
\* emission order and before the highlighted entry is extracted, every label
\* y is at most the previous label y minus min_space_y (as real numbers), and
\* every label y is at most its own line y; after construction and after
\* every search and reset.
C12_ExactLabelSpacing ==
    Constructed =>
        LET data == plot_data
        IN  \A k \in 1..Len(data) :
                /\ float_le(data[k].text_y, data[k].line_y_points[1])
                /\ k > 1 => real_le_difference(data[k].text_y, data[k - 1].text_y,
                                               min_space_y)

\* C12, amended: every label y is at most its own line y, and every label
\* after the first is either the float nearest to the previous label y minus
\* min_space_y, or on its line at a distance from the previous label that,
\* subtracted in floats, is at least min_space_y; after construction and
\* after every search and reset.
C12_MinimumLabelSpacing ==
    Constructed =>
        LET data == plot_data
        IN  /\ stored_from(isolate_searched(data, last_searched, y_range))
            /\ \A k \in 1..Len(data) :
                  /\ float_le(data[k].text_y, data[k].line_y_points[1])
                  /\ k > 1 =>
                        \/ data[k].text_y = float_sub(data[k - 1].text_y, min_space_y)
                        \/ /\ data[k].text_y = data[k].line_y_points[1]
                           /\ float_le(min_space_y,
                                       float_sub(data[k - 1].text_y, data[k].text_y))

\* after a search, a label that was pulled below its line to the float
\* nearest to min_space_y below the label before it
C12_Witness ==
    /\ Constructed
    /\ last_event = "search"
    /\ LET data == plot_data
       IN  \E k \in 2..Len(data) :
               /\ float_lt(data[k].text_y, data[k].line_y_points[1])
               /\ data[k].text_y = float_sub(data[k - 1].text_y, min_space_y)

\* C13: within one Plot-Data Builder pass the line y of consecutive emitted
\* LineEntries is non-increasing, in every category (category 0, sorted by
\* time-safe count descending, included) and across category boundaries.
C13_DescendingPlacement ==
    Constructed =>
        LET data == plot_data
        IN  \A k \in 2..Len(data) :
                float_le(data[k].line_y_points[1], data[k - 1].line_y_points[1])

\* the number of places of sequence s that hold x
Count(s, x) == Cardinality({k \in 1..Len(s) : s[k] = x})

\* category and row of every displayed row of a category of non-zero ratio
shown_rows ==
    Flatten([i \in Categories |->
        IF ratios[i] = FloatZero THEN <<>>
        ELSE [k \in 1..Len(display_regions[i]) |-> <<i, display_regions[i][k]>>]])

\* category and row that a LineEntry was made from
entry_row(e) ==
    <<e.category,
      [region |-> e.region_name, postcode |-> e.postcode, time_safe |-> e.time_safe,
       primary |-> e.primary_incidence, secondary |-> e.secondary_incidence]>>

\* category and row of every LineEntry of the two collections
collected_rows ==
    [k \in 1..(Len(source) + Len(searched_source)) |->
        entry_row((source \o searched_source)[k])]

\* C14: after every handler the main and highlighted collections together
\* hold exactly one LineEntry for each row of each DisplaySet of a category
\* of non-zero ratio, none of them twice; the highlighted collection holds
\* at most one entry, and holds one exactly when some displayed row's region
\* name or postcode equals last_searched.
C14_CollectionsCoverDisplay ==
    Constructed =>
        /\ Len(collected_rows) = Len(shown_rows)
        /\ \A x \in Range(shown_rows) \cup Range(collected_rows) :
              Count(collected_rows, x) = Count(shown_rows, x)
        /\ Len(searched_source) <= 1
        /\ (Len(searched_source) = 1)
              <=> \E i \in Categories : \E r \in display_rows(i) :
                      r.region = last_searched \/ r.postcode = last_searched
        /\ \A e \in Range(searched_source) :
              e.region_name = last_searched \/ e.postcode = last_searched

\* a search has moved one entry to the highlighted collection and left
\* others in the main one
C14_Witness ==
    /\ last_event = "search"
    /\ Len(searched_source) = 1
    /\ Len(source) >= 1
    /\ \A e \in Range(source) : e # searched_source[1]

\* C15: one call of the expander with candidate y turns the viewport
\* (lower, upper) into (y - (upper - 1), upper) when y < lower and leaves it
\* unchanged otherwise; a second call with the same y leaves the viewport
\* exactly as the first call left it.
C15_ExpanderStep ==
    /\ range_pc \in {"once", "twice"}
          => range_once = IF float_lt(range_y, range_in[1])
                          THEN <<float_sub(range_y, float_sub(range_in[2], FloatOne)),
                                 range_in[2]>>
                          ELSE range_in
    /\ range_pc = "twice" => y_range = range_once

\* two calls with a candidate below the lower bound: the first lowered the
\* bound, the second changed nothing
C15_Witness ==
    /\ range_pc = "twice"
    /\ float_lt(range_y, range_in[1])
    /\ float_lt(range_once[1], range_in[1])
    /\ y_range = range_once

\* the label ys of the main and the highlighted collection
label_positions == {e.text_y : e \in Range(source) \cup Range(searched_source)}

\* C16: for a viewport whose upper bound is at least 1, after every layout
\* pass (construction, search, reset) every label y of the two collections
\* is at least the viewport's lower bound, and over any sequence of events
\* the upper bound never changes and the lower bound never increases.
C16_NoClippingNoShrinking ==
    [][float_le(FloatOne, y_range[2])
          => /\ Constructed' => \A y \in label_positions' : float_le(y_range'[1], y)
             /\ y_range'[2] = y_range[2]
             /\ float_le(y_range'[1], y_range[1])]_vars

\* after a reset the viewport is still the grown one, and a label lies
\* below the configured lower bound
C16_Witness ==
    /\ last_event = "reset"
    /\ float_lt(y_range[1], DEFAULT_Y_RANGE[1])
    /\ \E y \in label_positions : float_lt(y, DEFAULT_Y_RANGE[1])
    /\ \A y \in label_positions : float_le(y_range[1], y)

\* the number of rows of DisplaySet i, with multiplicity, that the Display
\* Selector's output for category i does not hold
injected_rows(i) ==
    SumSeq([k \in 1..Len(display_regions[i]) |->
        IF Count(SubSeq(display_regions[i], 1, k), display_regions[i][k])
               > Count(initial_display[i], display_regions[i][k])
        THEN 1 ELSE 0])

\* C17: after any sequence of search events, with or without resets in
\* between, the DisplaySets of all categories together hold at most one row
\* that is not part of the Display Selector's output.
C17_AtMostOneInjectedRow ==
    Constructed => SumSeq([i \in Categories |-> injected_rows(i)]) <= 1

====
